---- MODULE Spec2Model ----
(***************************************************************************)
(* A model of src/index.ts of alchemy-web3: the alchemy method calls and   *)
(* their promise/callback bridge, the provider surface of the object built *)
(* by createAlchemyWeb3, the eth.subscribe patch with its scoped warning   *)
(* suppression, the patched subscription argument validator and the REST   *)
(* query-parameter encoding.                                               *)
(***************************************************************************)
EXTENDS Integers, Sequences, FiniteSets, TLC

VARIABLES
  \* REST parameters
  restIn,       \* the params object of a REST call
  restOut,      \* its encoded parameters
  restPc,       \* "start" while the caller builds params, "done" once encoded
  consoleWarn,  \* the warning sink console.warn
  stack,        \* the eth.subscribe calls that are running, outermost first
  lastDone,     \* the eth.subscribe call that ended last
  lastWarn,     \* the console.warn call made last
  \* subscription argument validation
  valThis,      \* the subscription object _validateArgs is called on
  valArgs,      \* the args it is called with
  valCalls,     \* the calls of the default validator it made
  valPc,        \* "new", "created", then "returned" or "threw"
  valHistory,   \* the _validateArgs calls that have ended, in order
  \* alchemy method calls
  config,       \* the config createAlchemyWeb3 was given
  fullConfig,   \* fillInConfigDefaults(config)
  built,        \* createAlchemyWeb3 has returned
  calls,        \* the alchemy method calls made, in order
  \* providers
  provider,       \* the provider of the web3 object: the read provider
  writeProvider,  \* the write provider of the alchemy context
  lastSetWrite,   \* the argument of the last setWriteProvider call
  lastOp,         \* the setProvider or setWriteProvider call made last
  lastSend        \* the request made last through the provider

restVars == <<restIn, restOut, restPc>>

subVars == <<consoleWarn, stack, lastDone, lastWarn>>

valVars == <<valThis, valArgs, valCalls, valPc, valHistory>>

buildVars == <<config, fullConfig, built>>

callVars == <<calls>>

provVars == <<provider, writeProvider, lastSetWrite, lastOp, lastSend>>

\* ------------------------------------------------------------------------
\* Bounds of the model.
\* ------------------------------------------------------------------------
MaxBrackets == 2
MaxParams == 2
MaxDepth == 2
MaxCalls == 1
MaxConfigRetries == 1
MaxSubscriptions == 2

\* ------------------------------------------------------------------------
\* REST query parameters: fixArrayQueryParams, toArrayKey, endsWith.
\* A key is a sequence of characters; an object is the sequence of its
\* own enumerable properties in Object.keys order (insertion order: no key
\* of KeyChars is an integer index).  A value is a scalar or an array,
\* which is all that Array.isArray tells apart.
\* ------------------------------------------------------------------------
Brackets == {"[", "]"}

BracketRuns == UNION {[1..n -> Brackets] : n \in 0..MaxBrackets}

Letters == {<<>>, <<"k">>}

\* The keys of the model: a run of up to MaxBrackets bracket characters,
\* with or without a letter before it and after it ("k", "k[]", "[]k", "k][", ...).
\* A parameter has a name: the empty key is left out.
Keys == {pre \o run \o post : pre \in Letters, run \in BracketRuns, post \in Letters}
          \ {<<>>}

\* A value is told apart by what Array.isArray says of it and by its identity
\* (id: the place of the property that held it in the caller's object).
Values == [isArray : BOOLEAN, id : 1..(MaxParams + 1)]

HasKey(obj, key) == \E i \in 1..Len(obj) : obj[i].key = key

\* obj[key] of an object that has the key.
Get(obj, key) == obj[CHOOSE i \in 1..Len(obj) : obj[i].key = key].value

\* obj[key] = value: an existing property keeps its place, a new one is added last.
Put(obj, key, value) ==
  IF HasKey(obj, key)
  THEN [i \in 1..Len(obj) |->
          IF obj[i].key = key THEN [key |-> key, value |-> value] ELSE obj[i]]
  ELSE Append(obj, [key |-> key, value |-> value])

ArraySuffix == <<"[", "]">>

\* String.prototype.lastIndexOf: the greatest 0-based index where ending occurs, or -1.
lastIndexOf(s, ending) ==
  LET found == {i \in 0..(Len(s) - Len(ending)) :
                  SubSeq(s, i + 1, i + Len(ending)) = ending}
  IN IF found = {} THEN -1 ELSE CHOOSE i \in found : \A j \in found : j <= i

endsWith(s, ending) ==
  LET index == lastIndexOf(s, ending)
  IN index >= 0 /\ index = Len(s) - Len(ending)

toArrayKey_appendsAlways(key) == key \o ArraySuffix

toArrayKey(key) == IF endsWith(key, ArraySuffix) THEN key ELSE key \o ArraySuffix

RECURSIVE fixFrom(_, _, _)
\* The forEach of fixArrayQueryParams from the i-th key on, result being built.
fixFrom(params, i, result) ==
  IF i > Len(params) THEN result
  ELSE LET key == params[i].key
           value == params[i].value
           fixedKey == IF value.isArray THEN toArrayKey(key) ELSE key
       IN fixFrom(params, i + 1, Put(result, fixedKey, value))

fixArrayQueryParams(params) == fixFrom(params, 1, <<>>)

RestInit == restIn = <<>> /\ restOut = <<>> /\ restPc = "start"

\* The caller builds the params object, one property at a time.
RestAddParam(key, isArray) ==
  /\ restPc = "start"
  /\ Len(restIn) < MaxParams
  /\ ~HasKey(restIn, key)
  /\ restIn' = Append(restIn, [key |-> key,
                               value |-> [isArray |-> isArray, id |-> Len(restIn) + 1]])
  /\ UNCHANGED <<restOut, restPc>>
  /\ UNCHANGED <<subVars, valVars, buildVars, callVars, provVars>>

\* fixedParams = fixArrayQueryParams(params)
EncodeRestParams ==
  /\ restPc = "start"
  /\ restOut' = fixArrayQueryParams(restIn)
  /\ restPc' = "done"
  /\ UNCHANGED restIn
  /\ UNCHANGED <<subVars, valVars, buildVars, callVars, provVars>>

RestNext ==
  \/ \E key \in Keys, isArray \in BOOLEAN : RestAddParam(key, isArray)
  \/ EncodeRestParams

\* ------------------------------------------------------------------------
\* C4
\* ------------------------------------------------------------------------
EndsInSuffix(key) ==
  Len(key) >= 2 /\ key[Len(key) - 1] = "[" /\ key[Len(key)] = "]"

\* Where the claim says a parameter is to be found in the encoded parameters.
ClaimedKey(entry) ==
  IF entry.value.isArray /\ ~EndsInSuffix(entry.key)
  THEN entry.key \o <<"[", "]">>
  ELSE entry.key

Encoded(entry) ==
  HasKey(restOut, ClaimedKey(entry)) /\ Get(restOut, ClaimedKey(entry)) = entry.value

\* The map holds an array-valued key k without the suffix together with the key k[].
Collides(i, j) ==
  /\ i # j
  /\ restIn[i].value.isArray
  /\ ~EndsInSuffix(restIn[i].key)
  /\ restIn[j].key = restIn[i].key \o <<"[", "]">>

\* C4 as stated: the encoded parameters hold every input parameter, a scalar
\* under its own key, an array under k[] (or under k when k ends in []), for
\* every parameter map, those holding both k and k[] included.
C4_EveryParamEncoded ==
  restPc = "done" => \A i \in 1..Len(restIn) : Encoded(restIn[i])

\* C4 as amended: the same for every parameter that shares its encoded key with
\* no other; of an array-valued k and the key k[] held together, the encoded
\* parameters hold under k[] only the value of the one that comes later in the
\* map's key order.
C4_EveryParamEncodedUnlessShadowed ==
  restPc = "done" =>
    /\ \A i \in 1..Len(restIn) :
         (\A j \in 1..Len(restIn) : ~Collides(i, j) /\ ~Collides(j, i))
           => Encoded(restIn[i])
    /\ \A i, j \in 1..Len(restIn) :
         Collides(i, j) =>
           /\ Encoded(restIn[IF i > j THEN i ELSE j])
           /\ ~Encoded(restIn[IF i > j THEN j ELSE i])
    /\ \A n \in 1..Len(restOut) :
         \E i \in 1..Len(restIn) :
           restOut[n].key = ClaimedKey(restIn[i]) /\ restOut[n].value = restIn[i].value

\* An array-valued key gained the suffix, an array-valued key that had it kept
\* its name, and a scalar kept its key, as in {ids: [1,2,3], x: 1}.
C4_Witness ==
  /\ restPc = "done"
  /\ \E i, j \in 1..Len(restIn) :
       /\ restIn[i].value.isArray /\ restIn[i].key = <<"k">>
       /\ HasKey(restOut, <<"k", "[", "]">>)
       /\ ~restIn[j].value.isArray /\ HasKey(restOut, restIn[j].key)
       /\ Len(restOut) = 2

\* ------------------------------------------------------------------------
\* eth.subscribe as patched by patchSubscriptions, and the scoped
\* replacement of console.warn by suppressNoSubscriptionExistsWarning.
\*
\* A warning sink is the chain of replacement functions installed over the
\* original console.warn: <<>> is the original, <<d>> \o old is the
\* replacement made by the subscribe call at call depth d, closing over old.
\* ------------------------------------------------------------------------
FullAliases ==
  {"alchemy_fullPendingTransactions", "alchemy_newFullPendingTransactions"}

FilteredAliases ==
  {"alchemy_filteredNewFullPendingTransactions",
   "alchemy_filteredPendingTransactions",
   "alchemy_filteredFullPendingTransactions"}

StandardTypes == {"logs"}

SubscribeTypes == FullAliases \cup FilteredAliases \cup StandardTypes

\* The ...rest arguments of a subscribe call.
RestArgs == {<<"listener">>, <<"options", "listener">>}

\* What the underlying subscribe hands back, or the error it throws.
Outcomes ==
  {[kind |-> "return", v |-> "subscription"], [kind |-> "throw", v |-> "error"]}

wireType_fullNotAliased(type) ==
  IF type \in FilteredAliases
  THEN "alchemy_filteredNewFullPendingTransactions"
  ELSE type

\* The type eth.subscribe hands to oldSubscribe.
wireType(type) ==
  IF type \in FullAliases
  THEN "alchemy_newFullPendingTransactions"
  ELSE IF type \in FilteredAliases
       THEN "alchemy_filteredNewFullPendingTransactions"
       ELSE type

\* Whether eth.subscribe runs oldSubscribe inside suppressNoSubscriptionExistsWarning.
suppresses(type) == type \in FullAliases \cup FilteredAliases

\* Strings are sequences of pieces; the piece boundaries are where the texts
\* of the model differ.
Needle == <<" doesn't exist.", " Subscribing anyway.">>

includes(text, part) ==
  \E i \in 1..(Len(text) - Len(part) + 1) : SubSeq(text, i, i + Len(part) - 1) = part

WarnTexts ==
  {<<"Subscription x", " doesn't exist.", " Subscribing anyway.">>,
   <<" doesn't exist.">>,
   <<" Subscribing anyway.", " doesn't exist.">>,
   <<"deprecated">>}

WarnValues ==
  [type : {"string"}, text : WarnTexts] \cup [type : {"number"}, text : {<<>>}]

\* The argument lists of a console.warn call.
WarnArgs ==
  {<<>>} \cup {<<a>> : a \in WarnValues}
    \cup {<<[type |-> "number", text |-> <<>>], [type |-> "string", text |-> Needle]>>}

isDropped_anyString(args) == Len(args) >= 1 /\ args[1].type = "string"

\* The test of the replacement console.warn.
isDropped(args) ==
  /\ Len(args) >= 1
  /\ args[1].type = "string"
  /\ includes(args[1].text, Needle)

RECURSIVE callSink(_, _)
\* console.warn(...args) through sink: the argument lists the original
\* console.warn is called with (none, or one).
callSink(sink, args) ==
  IF sink = <<>> THEN <<args>>
  ELSE IF isDropped(args) THEN <<>>
       ELSE callSink(Tail(sink), args)

sinkAfter_noFinally(frame, threw) == IF threw THEN <<frame.depth>> \o frame.old ELSE frame.old

\* console.warn once the subscribe call of frame is over, by return or by throw.
sinkAfter(frame, threw) == frame.old

\* What eth.subscribe hands back: what oldSubscribe returned or threw.
subscribeResult(underOutcome) == underOutcome

NoCall == [type |-> "none",
           outcome |-> [kind |-> "none", v |-> "none"],
           underOutcome |-> [kind |-> "none", v |-> "none"],
           sinkBefore |-> <<>>, sinkAfter |-> <<>>]

NoWarn == [args |-> <<>>, during |-> FALSE, toOriginal |-> <<>>, made |-> FALSE]

SubInit ==
  /\ consoleWarn = <<>>
  /\ stack = <<>>
  /\ lastDone = NoCall
  /\ lastWarn = NoWarn

\* eth.subscribe(type, ...rest), up to the point where oldSubscribe is running.
Subscribe(type, rest) ==
  /\ Len(stack) < MaxDepth
  /\ LET depth == Len(stack) + 1
         frame == [type |-> type, rest |-> rest, depth |-> depth,
                   old |-> consoleWarn,
                   installed |-> IF suppresses(type) THEN <<depth>> \o consoleWarn
                                 ELSE consoleWarn,
                   under |-> <<[type |-> wireType(type), rest |-> rest]>>]
     IN /\ stack' = Append(stack, frame)
        /\ consoleWarn' = frame.installed
  /\ UNCHANGED <<lastDone, lastWarn>>
  /\ UNCHANGED <<restVars, valVars, buildVars, callVars, provVars>>

\* oldSubscribe of the innermost running call returns or throws, and the
\* call is over.
SubscribeExit(outcome) ==
  /\ stack # <<>>
  /\ LET frame == stack[Len(stack)]
     IN /\ consoleWarn' = IF suppresses(frame.type)
                          THEN sinkAfter(frame, outcome.kind = "throw")
                          ELSE consoleWarn
        /\ lastDone' = [type |-> frame.type,
                        outcome |-> subscribeResult(outcome),
                        underOutcome |-> outcome,
                        sinkBefore |-> frame.old, sinkAfter |-> consoleWarn']
        /\ stack' = SubSeq(stack, 1, Len(stack) - 1)
  /\ UNCHANGED lastWarn
  /\ UNCHANGED <<restVars, valVars, buildVars, callVars, provVars>>

\* Some code calls console.warn(...args).
Warn(args) ==
  /\ lastWarn' = [args |-> args,
                  during |-> \E i \in 1..Len(stack) : suppresses(stack[i].type),
                  toOriginal |-> callSink(consoleWarn, args), made |-> TRUE]
  /\ UNCHANGED <<consoleWarn, stack, lastDone>>
  /\ UNCHANGED <<restVars, valVars, buildVars, callVars, provVars>>

SubNext ==
  \/ \E type \in SubscribeTypes, rest \in RestArgs : Subscribe(type, rest)
  \/ \E outcome \in Outcomes : SubscribeExit(outcome)
  \/ \E args \in WarnArgs : Warn(args)

\* ------------------------------------------------------------------------
\* subscription.prototype._validateArgs as replaced at module load.
\* The default validator (oldSubscriptionPrototypeValidateArgs) belongs to
\* web3-core-subscriptions: it is called with this and args, and returns or
\* throws a validation error.
\* ------------------------------------------------------------------------
SubscriptionMethods == FullAliases \cup FilteredAliases \cup {"logs", "newHeads"}

\* this.options.subscription: missing, or an object with or without a subscriptionName.
PendingSubscriptions ==
  {[present |-> FALSE, subscriptionName |-> "undefined"],
   [present |-> TRUE, subscriptionName |-> "undefined"],
   [present |-> TRUE, subscriptionName |-> "logs"]}

ValidatedArgs == {<<>>, <<"options">>, <<"options", "extra">>}

skipsValidation_wireNameOnly(method) ==
  method = "alchemy_filteredNewFullPendingTransactions"

\* The first test of _validateArgs: the method is allowed additional parameters.
skipsValidation(method) ==
  method \in {"alchemy_filteredNewFullPendingTransactions",
              "alchemy_filteredPendingTransactions",
              "alchemy_filteredFullPendingTransactions"}

\* The second test of _validateArgs.
recordsName(method) ==
  method \in {"alchemy_fullPendingTransactions", "alchemy_newFullPendingTransactions"}

\* this.options.subscription once _validateArgs has got to the default validator.
subscriptionBeforeValidator(this) ==
  IF recordsName(this.subscriptionMethod) /\ this.subscription.present
  THEN [this.subscription EXCEPT !.subscriptionName = this.subscriptionMethod]
  ELSE this.subscription

NoSubscription ==
  [subscriptionMethod |-> "none",
   subscription |-> [present |-> FALSE, subscriptionName |-> "undefined"]]

ValInit ==
  /\ valThis = NoSubscription
  /\ valArgs = <<>>
  /\ valCalls = <<>>
  /\ valPc = "new"
  /\ valHistory = <<>>

\* A new subscription object comes to its argument validation.
NewSubscription(method, pending, args) ==
  /\ valPc # "created"
  /\ Len(valHistory) < MaxSubscriptions
  /\ valThis' = [subscriptionMethod |-> method, subscription |-> pending]
  /\ valArgs' = args
  /\ valCalls' = <<>>
  /\ valPc' = "created"
  /\ UNCHANGED valHistory
  /\ UNCHANGED <<restVars, subVars, buildVars, callVars, provVars>>

\* this._validateArgs(args), the default validator returning or throwing.
ValidateArgs(validatorThrows) ==
  /\ valPc = "created"
  /\ IF skipsValidation(valThis.subscriptionMethod)
     THEN /\ valPc' = "returned"
          /\ UNCHANGED <<valThis, valCalls>>
     ELSE /\ valThis' = [valThis EXCEPT !.subscription = subscriptionBeforeValidator(valThis)]
          /\ valCalls' = Append(valCalls, [this |-> valThis', args |-> valArgs])
          /\ valPc' = IF validatorThrows THEN "threw" ELSE "returned"
  /\ valHistory' = Append(valHistory, [this |-> valThis, args |-> valArgs,
                                       calls |-> valCalls', pc |-> valPc'])
  /\ UNCHANGED valArgs
  /\ UNCHANGED <<restVars, subVars, buildVars, callVars, provVars>>

ValNext ==
  \/ \E method \in SubscriptionMethods, pending \in PendingSubscriptions,
        args \in ValidatedArgs : NewSubscription(method, pending, args)
  \/ \E validatorThrows \in BOOLEAN : ValidateArgs(validatorThrows)

\* ------------------------------------------------------------------------
\* C9
\* ------------------------------------------------------------------------
FilteredNames ==
  {"alchemy_filteredNewFullPendingTransactions",
   "alchemy_filteredPendingTransactions",
   "alchemy_filteredFullPendingTransactions"}

PlainFullPendingNames ==
  {"alchemy_fullPendingTransactions", "alchemy_newFullPendingTransactions"}

\* The ended call v of _validateArgs never called the default validator and
\* raised nothing.
SkippedValidator(v) == v.calls = <<>> /\ v.pc = "returned"

\* The ended call v called the default validator exactly once, on its own
\* subscription object and with its own args.
ValidatedOnce(v) ==
  /\ Len(v.calls) = 1
  /\ v.calls[1].args = v.args
  /\ v.calls[1].this.subscriptionMethod = v.this.subscriptionMethod

\* The default validator of v found a pending subscription object carrying the
\* method name of v as its subscriptionName.
NameRecorded(v) ==
  /\ v.calls[1].this.subscription.present
  /\ v.calls[1].this.subscription.subscriptionName = v.this.subscriptionMethod

\* The default validator of v found this.options.subscription as it was when
\* _validateArgs was called.
NothingRecorded(v) == v.calls[1].this.subscription = v.this.subscription

\* C9 as stated: validating the arguments of a subscription whose method is one
\* of the three filtered names never calls the default validator and never
\* raises; for every other method the default validator is called exactly once
\* with the same arguments, and for a plain full-pending name the pending
\* subscription object carries that name as its subscriptionName when the
\* default validator is called, whatever this.options holds.
C9_NameAlwaysRecorded ==
  \A i \in 1..Len(valHistory) :
    LET v == valHistory[i]
    IN IF v.this.subscriptionMethod \in FilteredNames
       THEN SkippedValidator(v)
       ELSE /\ ValidatedOnce(v)
            /\ (v.this.subscriptionMethod \in PlainFullPendingNames
                  => NameRecorded(v))

\* C9 as amended: the same, except that for a plain full-pending name the name
\* is recorded only where this.options holds a pending subscription object;
\* where it holds none, the default validator is called once all the same,
\* nothing is recorded and no object is created.  For every name that is not
\* a plain full-pending name the default validator finds the object unchanged.
C9_FilteredSkipValidation ==
  \A i \in 1..Len(valHistory) :
    LET v == valHistory[i]
    IN IF v.this.subscriptionMethod \in FilteredNames
       THEN SkippedValidator(v)
       ELSE /\ ValidatedOnce(v)
            /\ IF /\ v.this.subscriptionMethod \in PlainFullPendingNames
                  /\ v.this.subscription.present
               THEN NameRecorded(v)
               ELSE NothingRecorded(v)

\* A filtered subscription with an extra argument has gone through without the
\* default validator being called, and then the default validator has thrown
\* on a plain full-pending subscription, having been given the pending
\* subscription object with the name recorded over the one it held.
C9_Witness ==
  /\ Len(valHistory) = 2
  /\ valHistory[1].this.subscriptionMethod = "alchemy_filteredFullPendingTransactions"
  /\ valHistory[1].args = <<"options", "extra">>
  /\ valHistory[1].calls = <<>>
  /\ valHistory[1].pc = "returned"
  /\ valHistory[2].this.subscriptionMethod = "alchemy_newFullPendingTransactions"
  /\ valHistory[2].this.subscription = [present |-> TRUE, subscriptionName |-> "logs"]
  /\ valHistory[2].pc = "threw"
  /\ Len(valHistory[2].calls) = 1
  /\ valHistory[2].calls[1].this.subscription.subscriptionName
       = "alchemy_newFullPendingTransactions"

\* ------------------------------------------------------------------------
\* createAlchemyWeb3 and fillInConfigDefaults.
\* ------------------------------------------------------------------------
DEFAULT_MAX_RETRIES == 3
DEFAULT_RETRY_INTERVAL == 1000
DEFAULT_RETRY_JITTER == 250

\* window.ethereum, where there is a window with an injected provider.
WindowProviders == {"null", "injected"}

\* A number of a config: left out, or given.
Unset == [given |-> FALSE, n |-> 0]

Given(n) == [given |-> TRUE, n |-> n]

\* A config as the caller gives it.
Configs ==
  [writeProvider : {"unset", "null", "wallet"},
   maxRetries : {Unset} \cup {Given(n) : n \in 0..MaxConfigRetries},
   window : WindowProviders]

fillInConfigDefaults_ignoresMaxRetries(cfg) ==
  [writeProvider |-> IF cfg.writeProvider = "unset" THEN cfg.window
                     ELSE cfg.writeProvider,
   jsonRpcSenderMiddlewares |-> <<>>,
   maxRetries |-> DEFAULT_MAX_RETRIES,
   retryInterval |-> DEFAULT_RETRY_INTERVAL,
   retryJitter |-> DEFAULT_RETRY_JITTER]

\* cfg.window is what getWindowProvider() returns; the caller of this model
\* sets neither the middlewares nor the retry delays.
fillInConfigDefaults(cfg) ==
  [writeProvider |-> IF cfg.writeProvider = "unset" THEN cfg.window
                     ELSE cfg.writeProvider,
   jsonRpcSenderMiddlewares |-> <<>>,
   maxRetries |-> IF cfg.maxRetries.given THEN cfg.maxRetries.n
                  ELSE DEFAULT_MAX_RETRIES,
   retryInterval |-> DEFAULT_RETRY_INTERVAL,
   retryJitter |-> DEFAULT_RETRY_JITTER]

NoConfig == [writeProvider |-> "unset", maxRetries |-> Unset, window |-> "null"]

\* ------------------------------------------------------------------------
\* The alchemy methods: callAlchemyJsonRpcMethod, callAlchemyRestEndpoint,
\* processTokenBalanceResponse, and the promise/callback bridge callWhenDone.
\* ------------------------------------------------------------------------
Undefined == [tag |-> "undefined"]

Null == [tag |-> "null"]

Error(name) == [tag |-> "error", name |-> name]

\* getTokenMetadata stands for the methods that pass their arguments on as
\* they are (getTokenAllowance, getTransactionReceipts), getNfts for the REST
\* methods (getNftMetadata).
AlchemyMethods == {"getTokenMetadata", "getTokenBalances", "getAssetTransfers", "getNfts"}

isRest(method) == method = "getNfts"

\* What the caller passes as the method's parameters.
ParamsOf(method) ==
  CASE method = "getTokenMetadata" -> {"address"}
    [] method = "getTokenBalances" -> {"address", "address and contracts"}
    [] method = "getAssetTransfers" -> {"object", "undefined", "maxCount NaN"}
    [] method = "getNfts" -> {"object", "undefined"}

\* The params object of the REST call of the model, as in {ids: [..], x: 1}.
SampleParams ==
  <<[key |-> <<"k">>, value |-> [isArray |-> TRUE, id |-> 1]],
    [key |-> <<"k", "k">>, value |-> [isArray |-> FALSE, id |-> 2]]>>

\* Whether evaluating the method's arguments throws before the call is made:
\* params.fromBlock of undefined and toHex(NaN) in getAssetTransfers,
\* Object.keys(undefined) in fixArrayQueryParams.
prepThrows(method, params) ==
  CASE method = "getAssetTransfers" -> params \in {"undefined", "maxCount NaN"}
    [] method = "getNfts" -> params = "undefined"
    [] OTHER -> FALSE

\* The request handed to jsonRpcSenders.send or restSender.sendRestPayload.
requestOf(method, params) ==
  CASE method = "getTokenMetadata" ->
         [name |-> "alchemy_getTokenMetadata", params |-> <<"address">>,
          query |-> <<>>]
    [] method = "getTokenBalances" ->
         [name |-> "alchemy_getTokenBalances",
          params |-> <<"address", IF params = "address and contracts"
                                  THEN "contracts" ELSE "DEFAULT_TOKENS">>,
          query |-> <<>>]
    [] method = "getAssetTransfers" ->
         [name |-> "alchemy_getAssetTransfers", params |-> <<"formatted object">>,
          query |-> <<>>]
    [] method = "getNfts" ->
         [name |-> "/v1/getNFTs/", params |-> <<>>,
          query |-> fixArrayQueryParams(SampleParams)]

\* A token balance is a hex string or null; decodeParameter("uint256", hex)
\* is the same number as a decimal string.
HexBalance == [enc |-> "hex", n |-> 255]

NullBalance == [enc |-> "null", n |-> 0]

\* The results a transport hands back.
Responses ==
  {[tag |-> "response", hasBalances |-> FALSE, tokenBalances |-> <<>>],
   [tag |-> "response", hasBalances |-> TRUE,
    tokenBalances |-> <<HexBalance, NullBalance>>]}

identity(x) == x

processTokenBalanceResponse(rawResponse) ==
  [rawResponse EXCEPT !.tokenBalances =
     [i \in 1..Len(rawResponse.tokenBalances) |->
        IF rawResponse.tokenBalances[i].enc # "null"
        THEN [enc |-> "decimal", n |-> rawResponse.tokenBalances[i].n]
        ELSE rawResponse.tokenBalances[i]]]

\* rawResponse.tokenBalances.map of a response without tokenBalances throws.
processThrows(method, response) ==
  method = "getTokenBalances" /\ ~response.hasBalances

processResponse(method, response) ==
  IF method = "getTokenBalances" THEN processTokenBalanceResponse(response)
  ELSE identity(response)

Pending == [state |-> "pending", v |-> Undefined]

NoPromise == [state |-> "none", v |-> Undefined]

\* How an attempt of a transport ends.
TransportOutcomes ==
  [kind : {"result"}, v : Responses]
    \cup [kind : {"transient"}, v : {Error("RateLimited"), Error("TransportError")}]
    \cup [kind : {"permanent"}, v : {Error("ApplicationError")}]

BuildInit ==
  /\ config = NoConfig
  /\ fullConfig = fillInConfigDefaults(NoConfig)
  /\ built = FALSE

CallInit == calls = <<>>

\* createAlchemyWeb3(alchemyUrl, config)
CreateAlchemyWeb3(cfg) ==
  /\ ~built
  /\ config' = cfg
  /\ fullConfig' = fillInConfigDefaults(cfg)
  /\ built' = TRUE
  /\ provider' = "alchemyProvider"
  /\ writeProvider' = fullConfig'.writeProvider
  /\ UNCHANGED <<lastSetWrite, lastOp, lastSend>>
  /\ UNCHANGED <<restVars, subVars, valVars, callVars>>

\* web3.alchemy.<method>(params, callback): the arguments are evaluated, then
\* callAlchemyJsonRpcMethod or callAlchemyRestEndpoint starts the request,
\* registers the callback with callWhenDone and returns the promise.
AlchemyCall(method, params, hasCallback) ==
  /\ built
  /\ Len(calls) < MaxCalls
  /\ calls' = Append(calls,
       IF prepThrows(method, params)
       THEN [method |-> method, params |-> params, hasCallback |-> hasCallback,
             request |-> [name |-> "none", params |-> <<>>, query |-> <<>>],
             pc |-> "threw", attempts |-> 0, lastError |-> Undefined,
             raised |-> Error(IF params = "maxCount NaN" THEN "Error" ELSE "TypeError"),
             promise |-> NoPromise, callbackCalls |-> <<>>]
       ELSE [method |-> method, params |-> params, hasCallback |-> hasCallback,
             request |-> requestOf(method, params),
             pc |-> "sending", attempts |-> 0, lastError |-> Undefined,
             raised |-> Undefined,
             promise |-> Pending, callbackCalls |-> <<>>])
  /\ UNCHANGED <<restVars, subVars, valVars, buildVars, provVars>>

\* Whether a send that has just failed transiently for the attempts-th time
\* is tried again.
retries(method, attempts) == ~isRest(method) /\ attempts <= fullConfig.maxRetries

\* The call after an attempt of its transport has ended with outcome.
afterAttempt(call, outcome) ==
  LET n == call.attempts + 1
  IN CASE outcome.kind = "result" /\ ~processThrows(call.method, outcome.v) ->
            [call EXCEPT !.attempts = n, !.pc = "settled",
               !.promise = [state |-> "fulfilled",
                            v |-> processResponse(call.method, outcome.v)]]
       [] outcome.kind = "result" /\ processThrows(call.method, outcome.v) ->
            [call EXCEPT !.attempts = n, !.pc = "settled",
               !.raised = Error("TypeError"),
               !.promise = [state |-> "rejected", v |-> Error("TypeError")]]
       [] outcome.kind = "transient" /\ retries(call.method, n) ->
            [call EXCEPT !.attempts = n, !.pc = "waiting", !.lastError = outcome.v]
       [] OTHER ->
            [call EXCEPT !.attempts = n, !.pc = "settled",
               !.lastError = outcome.v,
               !.raised = IF isRest(call.method) THEN Error("RestError") ELSE outcome.v,
               !.promise = [state |-> "rejected",
                            v |-> IF isRest(call.method) THEN Error("RestError")
                                  ELSE outcome.v]]

\* One attempt of the transport for call i ends.
Attempt(i, outcome) ==
  /\ i \in 1..Len(calls)
  /\ calls[i].pc = "sending"
  /\ calls' = [calls EXCEPT ![i] = afterAttempt(calls[i], outcome)]
  /\ UNCHANGED <<restVars, subVars, valVars, buildVars, provVars>>

\* The delay before a retry is over.
RetryTimer(i) ==
  /\ i \in 1..Len(calls)
  /\ calls[i].pc = "waiting"
  /\ calls' = [calls EXCEPT ![i].pc = "sending"]
  /\ UNCHANGED <<restVars, subVars, valVars, buildVars, provVars>>

\* The arguments callWhenDone calls the callback with, the promise settled.
callbackArgs(promise) ==
  IF promise.state = "rejected"
  THEN [error |-> promise.v, value |-> Undefined]
  ELSE [error |-> Null, value |-> promise.v]

\* The reaction callWhenDone registered on the promise of call i runs.
CallWhenDone(i) ==
  /\ i \in 1..Len(calls)
  /\ calls[i].pc = "settled"
  /\ calls' = [calls EXCEPT
       ![i].pc = "done",
       ![i].callbackCalls = Append(@, callbackArgs(calls[i].promise))]
  /\ UNCHANGED <<restVars, subVars, valVars, buildVars, provVars>>

CallNext ==
  \/ \E cfg \in Configs : CreateAlchemyWeb3(cfg)
  \/ \E method \in AlchemyMethods, hasCallback \in BOOLEAN :
       \E params \in ParamsOf(method) : AlchemyCall(method, params, hasCallback)
  \/ \E i \in 1..MaxCalls, outcome \in TransportOutcomes : Attempt(i, outcome)
  \/ \E i \in 1..MaxCalls : RetryTimer(i)
  \/ \E i \in 1..MaxCalls : CallWhenDone(i)

\* ------------------------------------------------------------------------
\* The provider surface of the object createAlchemyWeb3 returns: setProvider,
\* setWriteProvider, and the routing of a request to the read or the write
\* transport by the alchemy context.
\* ------------------------------------------------------------------------
WriteProviders == {"null", "wallet", "otherWallet"}

\* The methods the context hands to the write provider, and some it does not.
WriteMethods == {"eth_sendTransaction", "eth_sign"}

ReadMethods == {"eth_blockNumber", "eth_getBalance"}

NoOp == [name |-> "none", arg |-> "none", threw |-> FALSE,
         readBefore |-> "none", writeBefore |-> "null"]

NoSend == [method |-> "none", afterNull |-> FALSE, sentTo |-> <<>>,
           failed |-> "none"]

ProvInit ==
  /\ provider = "none"
  /\ writeProvider = "null"
  /\ lastSetWrite = "never"
  /\ lastOp = NoOp
  /\ lastSend = NoSend

providerAfterSetProvider_web3Default(p) == p

\* The provider of the web3 object after alchemyWeb3.setProvider(p): the
\* replacement throws before anything is set.
providerAfterSetProvider(p) == provider

\* alchemyWeb3.setProvider(p)
SetProvider(p) ==
  /\ built
  /\ provider' = providerAfterSetProvider(p)
  /\ lastOp' = [name |-> "setProvider", arg |-> p, threw |-> TRUE,
                readBefore |-> provider, writeBefore |-> writeProvider]
  /\ UNCHANGED <<writeProvider, lastSetWrite, lastSend>>
  /\ UNCHANGED <<restVars, subVars, valVars, buildVars, callVars>>

\* setWriteProvider of the alchemy context: the write provider it leaves.
contextSetWriteProvider(p) == p

alchemySetWriteProvider_notWired(p) == writeProvider

\* alchemyWeb3.setWriteProvider is the context's setWriteProvider.
alchemySetWriteProvider(p) == contextSetWriteProvider(p)

\* alchemyWeb3.setWriteProvider(p)
SetWriteProvider(p) ==
  /\ built
  /\ writeProvider' = alchemySetWriteProvider(p)
  /\ lastSetWrite' = p
  /\ lastOp' = [name |-> "setWriteProvider", arg |-> p, threw |-> FALSE,
                readBefore |-> provider, writeBefore |-> writeProvider]
  /\ UNCHANGED <<provider, lastSend>>
  /\ UNCHANGED <<restVars, subVars, valVars, buildVars, callVars>>

\* The transport a request for method goes to, "none" where there is none.
route(method) ==
  IF method \in WriteMethods
  THEN IF writeProvider = "null" THEN "none" ELSE writeProvider
  ELSE provider

\* A request for method is made through the provider of the web3 object.
Send(method) ==
  /\ built
  /\ lastSend' = [method |-> method,
                  afterNull |-> lastSetWrite = "null",
                  sentTo |-> IF route(method) = "none" THEN <<>> ELSE <<route(method)>>,
                  failed |-> IF route(method) = "none" THEN "ConfigurationError"
                             ELSE "none"]
  /\ UNCHANGED <<provider, writeProvider, lastSetWrite, lastOp>>
  /\ UNCHANGED <<restVars, subVars, valVars, buildVars, callVars>>

ProvNext ==
  \/ \E cfg \in Configs : CreateAlchemyWeb3(cfg)
  \/ \E p \in {"otherProvider", "wallet"} : SetProvider(p)
  \/ \E p \in WriteProviders : SetWriteProvider(p)
  \/ \E method \in WriteMethods \cup ReadMethods : Send(method)

\* ------------------------------------------------------------------------
\* C6, C8
\* ------------------------------------------------------------------------
\* C6: a write-classified request made after setWriteProvider(null), with no
\* provider set since, fails with ConfigurationError and reaches no
\* transport, neither the read one nor a write one configured before.
C6_NoWriteProviderNoAttempt ==
  (lastSend.method \in {"eth_sendTransaction", "eth_sign"} /\ lastSend.afterNull) =>
    /\ lastSend.failed = "ConfigurationError"
    /\ lastSend.sentTo = <<>>

\* A wallet was configured, then taken away, and a transaction was refused.
C6_Witness ==
  /\ fullConfig.writeProvider = "wallet"
  /\ lastSetWrite = "null"
  /\ lastOp.name = "setWriteProvider"
  /\ lastOp.writeBefore = "wallet"
  /\ lastSend.method = "eth_sendTransaction"
  /\ lastSend.afterNull
  /\ lastSend.failed = "ConfigurationError"

\* C8: the read provider is the one createAlchemyWeb3 made, whatever calls
\* of setProvider, setWriteProvider and requests were made; a setProvider
\* call throws and leaves both providers as they were, and a
\* setWriteProvider call leaves the read provider as it was.
C8_ReadProviderFixed ==
  /\ built => provider = "alchemyProvider"
  /\ lastOp.name = "setProvider" =>
       /\ lastOp.threw
       /\ provider = lastOp.readBefore
       /\ writeProvider = lastOp.writeBefore
  /\ lastOp.name = "setWriteProvider" =>
       /\ provider = lastOp.readBefore
       /\ writeProvider = lastOp.arg

\* setProvider was called while a wallet set by setWriteProvider was in
\* place, and a read went to the read provider afterwards.
C8_Witness ==
  /\ lastOp.name = "setProvider"
  /\ lastOp.arg = "otherProvider"
  /\ lastSetWrite = "wallet"
  /\ writeProvider = "wallet"
  /\ lastSend.method = "eth_getBalance"
  /\ lastSend.sentTo = <<"alchemyProvider">>
  /\ provider = "alchemyProvider"

\* ------------------------------------------------------------------------
\* C1, C5, C7
\* ------------------------------------------------------------------------
Over(call) == call.pc \in {"done", "threw"}

Settled(call) == call.promise.state \in {"fulfilled", "rejected"}

\* C1: for every alchemy method call made with a callback, the callback is
\* called exactly once, only after the returned promise has settled, with
\* (error, undefined) if it rejected and (null, value) if it fulfilled; never
\* twice, never with both, and never zero times once the call is over.
C1_CallbackExactlyOnce ==
  \A i \in 1..Len(calls) :
    calls[i].hasCallback =>
      /\ Len(calls[i].callbackCalls) <= 1
      /\ calls[i].callbackCalls # <<>> =>
           /\ Settled(calls[i])
           /\ calls[i].callbackCalls[1] =
                IF calls[i].promise.state = "rejected"
                THEN [error |-> calls[i].promise.v, value |-> [tag |-> "undefined"]]
                ELSE [error |-> [tag |-> "null"], value |-> calls[i].promise.v]
      /\ Over(calls[i]) => Len(calls[i].callbackCalls) = 1

\* C7: every error raised while carrying out an alchemy method call, one
\* raised while its parameters are prepared or encoded included, is the
\* rejection of the promise the call returns, and the error argument of the
\* callback once that has run.
C7_ErrorsReachPromise ==
  \A i \in 1..Len(calls) :
    calls[i].raised.tag = "error" =>
      /\ calls[i].promise = [state |-> "rejected", v |-> calls[i].raised]
      /\ (calls[i].hasCallback /\ Over(calls[i])) =>
           calls[i].callbackCalls =
             <<[error |-> calls[i].raised, value |-> [tag |-> "undefined"]]>>

\* The maxRetries of the claim: the configured number, 3 where none is given.
ClaimedMaxRetries == IF config.maxRetries.given THEN config.maxRetries.n ELSE 3

IsJsonRpc(call) == call.method \in {"getTokenMetadata", "getTokenBalances", "getAssetTransfers"}

\* C5: with maxRetries = N (3 by default), a JSON-RPC send never makes more
\* than N + 1 transport attempts, waits for a retry only after at most N of
\* them, and a send that ends on a transient failure has made exactly N + 1
\* attempts and fails with the error of the last one.
C5_RetriesBounded ==
  \A i \in 1..Len(calls) :
    IsJsonRpc(calls[i]) =>
      /\ calls[i].attempts <= ClaimedMaxRetries + 1
      /\ calls[i].pc = "waiting" => calls[i].attempts <= ClaimedMaxRetries
      /\ (/\ calls[i].promise.state = "rejected"
          /\ calls[i].promise.v \in {[tag |-> "error", name |-> "RateLimited"],
                                     [tag |-> "error", name |-> "TransportError"]})
           => /\ calls[i].attempts = ClaimedMaxRetries + 1
              /\ calls[i].promise.v = calls[i].lastError

\* With the default maxRetries a send failed on its fourth transient failure
\* and the callback was told.
C5_Witness ==
  /\ ~config.maxRetries.given
  /\ \E i \in 1..Len(calls) :
       /\ calls[i].method = "getTokenBalances"
       /\ calls[i].attempts = 4
       /\ calls[i].promise = [state |-> "rejected",
                              v |-> [tag |-> "error", name |-> "TransportError"]]
       /\ calls[i].pc = "done"

\* ------------------------------------------------------------------------
\* C2, C3, C10
\* ------------------------------------------------------------------------
ProviderSpecific ==
  {"alchemy_fullPendingTransactions", "alchemy_newFullPendingTransactions",
   "alchemy_filteredNewFullPendingTransactions",
   "alchemy_filteredPendingTransactions",
   "alchemy_filteredFullPendingTransactions"}

RunningProviderSpecific == {i \in 1..Len(stack) : stack[i].type \in ProviderSpecific}

\* C2: console.warn is the original sink whenever no subscribe call is
\* running, after calls that returned, calls that threw and nested calls
\* alike; a replacement is installed only while a provider-specific subscribe
\* call is running, one per such call.
C2_WarnSinkRestored ==
  /\ stack = <<>> => consoleWarn = <<>>
  /\ Len(consoleWarn) = Cardinality(RunningProviderSpecific)
  /\ lastDone.type \in ProviderSpecific => lastDone.sinkAfter = lastDone.sinkBefore

\* A provider-specific call nested in another threw, and the outer call's
\* replacement is the sink again.
C2_Witness ==
  /\ Len(stack) = 1
  /\ stack[1].type \in ProviderSpecific
  /\ lastDone.type \in ProviderSpecific
  /\ lastDone.outcome.kind = "throw"
  /\ lastDone.sinkBefore = <<1>>
  /\ consoleWarn = <<1>>

ClaimedWire(type) ==
  CASE type \in {"alchemy_fullPendingTransactions",
                 "alchemy_newFullPendingTransactions"}
         -> "alchemy_newFullPendingTransactions"
    [] type \in {"alchemy_filteredNewFullPendingTransactions",
                 "alchemy_filteredPendingTransactions",
                 "alchemy_filteredFullPendingTransactions"}
         -> "alchemy_filteredNewFullPendingTransactions"

AliasedRight(call) ==
  call.type \in ProviderSpecific =>
    call.under = <<[type |-> ClaimedWire(call.type), rest |-> call.rest]>>

\* C3: a subscribe call under an alias of the full-pending feed makes exactly
\* one underlying call, with wire type alchemy_newFullPendingTransactions, one
\* under a filtered alias exactly one with wire type
\* alchemy_filteredNewFullPendingTransactions; the remaining arguments are
\* passed unchanged and in order and the underlying call's result is the
\* call's result.
C3_AliasesReachWireType ==
  /\ \A i \in 1..Len(stack) : AliasedRight(stack[i])
  /\ lastDone.type \in ProviderSpecific => lastDone.outcome = lastDone.underOutcome

\* A call under an alias of the full-pending feed has returned what the
\* underlying call returned, and one under a filtered alias is running.
C3_Witness ==
  /\ lastDone.type = "alchemy_fullPendingTransactions"
  /\ lastDone.outcome = [kind |-> "return", v |-> "subscription"]
  /\ Len(stack) = 1
  /\ stack[1].type = "alchemy_filteredPendingTransactions"
  /\ stack[1].under =
       <<[type |-> "alchemy_filteredNewFullPendingTransactions",
          rest |-> <<"options", "listener">>]>>

Matches(args) ==
  /\ Len(args) >= 1
  /\ args[1].type = "string"
  /\ \E i \in 1..Len(args[1].text) - 1 :
       /\ args[1].text[i] = " doesn't exist."
       /\ args[1].text[i + 1] = " Subscribing anyway."

StandardUntouched(call) ==
  call.type \notin ProviderSpecific =>
    /\ call.under = <<[type |-> call.type, rest |-> call.rest]>>
    /\ call.installed = call.old

\* C10: while a provider-specific subscribe call is running, a warning whose
\* first argument is not a string containing the no-subscription text reaches
\* the original sink with the same arguments and only a matching one is
\* dropped; a subscribe call of a standard type reaches the underlying
\* subscribe with its type and arguments unchanged and leaves console.warn as
\* it was.
C10_SuppressionSelective ==
  /\ lastWarn.made /\ lastWarn.during =>
       lastWarn.toOriginal = IF Matches(lastWarn.args) THEN <<>> ELSE <<lastWarn.args>>
  /\ \A i \in 1..Len(stack) : StandardUntouched(stack[i])
  /\ lastDone.type \notin ProviderSpecific => lastDone.sinkAfter = lastDone.sinkBefore

\* A warning with half of the text went through during a provider-specific
\* call that was started inside a standard one.
C10_Witness ==
  /\ lastWarn.made /\ lastWarn.during
  /\ lastWarn.args = <<[type |-> "string", text |-> <<" doesn't exist.">>]>>
  /\ lastWarn.toOriginal = <<lastWarn.args>>
  /\ Len(stack) = 2
  /\ stack[1].type = "logs"
  /\ consoleWarn = <<2>>

\* ------------------------------------------------------------------------
\* Specifications: one per part of the program, the other parts at rest.
\* ------------------------------------------------------------------------
vars == <<restVars, subVars, valVars, buildVars, callVars, provVars>>

Init == RestInit /\ SubInit /\ ValInit /\ BuildInit /\ CallInit /\ ProvInit

SpecRest == Init /\ [][RestNext]_vars

SpecSub == Init /\ [][SubNext]_vars

SpecValidate == Init /\ [][ValNext]_vars

SpecCall == Init /\ [][CallNext]_vars

SpecProviders == Init /\ [][ProvNext]_vars

====
